---- MODULE Spec2Model ----
(***************************************************************************)
(* Model of the WOO multi-chain balance reconciliation script              *)
(* (.github/scripts/fetch-balances.js): the supply oracle client, the two  *)
(* chain adapters, and updateBalances with its read, loop, residual        *)
(* computation, sort, merge and write.  The frontend oracle client         *)
(* (fetchTotalSupply / fetchWOOMetrics) is modelled next to it.            *)
(***************************************************************************)
EXTENDS Integers, Sequences, FiniteSets, TLC

(* ------------------------------ bounds --------------------------------- *)
MaxLinks == 3
MaxAmount == 2
MaxLiveLinks == 2
MaxLoads == 2
MaxTicks == 2

(* ------------------------- program constants --------------------------- *)
LOCKED_SUPPLY == 300000000
CHAINS == {"Ethereum", "BSC"}

(* --------------------------- JavaScript values ------------------------- *)
\* A JavaScript value: a number, NaN, null, undefined (absent field),
\* a string holding a numeral, or a string holding no numeral.
Num(n) == [t |-> "num", v |-> n]
NaN == [t |-> "nan", v |-> 0]
Null == [t |-> "null", v |-> 0]
Undef == [t |-> "undef", v |-> 0]
NumStr(n) == [t |-> "numstr", v |-> n]
Str == [t |-> "str", v |-> 0]

\* ToNumber, as applied by Number(x) and by the operands of binary minus.
ToNumber(x) ==
    CASE x.t = "num" -> x
      [] x.t = "numstr" -> Num(x.v)
      [] x.t = "null" -> Num(0)
      [] OTHER -> NaN

\* ToBoolean, as applied by if (...) and by &&.
Truthy(x) ==
    CASE x.t = "num" -> x.v # 0
      [] x.t = "numstr" -> TRUE
      [] x.t = "str" -> TRUE
      [] OTHER -> FALSE

\* a - b
Sub(a, b) ==
    LET x == ToNumber(a)
        y == ToNumber(b)
    IN IF x.t = "nan" \/ y.t = "nan" THEN NaN ELSE Num(x.v - y.v)

\* a + b on numbers (the reduce of bridgedBalances only adds numbers)
Add(a, b) ==
    IF a.t = "nan" \/ b.t = "nan" THEN NaN ELSE Num(a.v + b.v)

\* a > 0
\* Mutant: the test circulatingSupply >= 0
GreaterOrEqualZero(a) == a.t = "num" /\ a.v >= 0

GreaterThanZero(a) == a.t = "num" /\ a.v > 0

\* JSON.stringify of a field value followed by JSON.parse: NaN is written
\* as null; everything else that occurs in a record survives.
JsonRoundTrip(x) == IF x.t = "nan" THEN Null ELSE x

\* The outcome of awaiting an async function: it rejects, or resolves to val.
Throws == [threw |-> TRUE, val |-> Undef]
Returns(x) == [threw |-> FALSE, val |-> x]
Pending == [threw |-> FALSE, val |-> [t |-> "pending", v |-> 0]]

(* ------------------------- Supply Oracle Client ------------------------ *)
\* An answer of the oracle endpoint.  net = FALSE: fetch() rejects (network
\* error).  k is the body: "invalid" (response.json() rejects), "null",
\* "number" (a bare number, f), "object" (f is the value of its
\* total_supply field, Undef when the field is missing).
TotalSupplies == {0, 100, LOCKED_SUPPLY + 1}
OracleBodies ==
    {[k |-> "invalid", f |-> Undef], [k |-> "null", f |-> Undef]}
    \cup {[k |-> "number", f |-> Num(n)] : n \in TotalSupplies}
    \cup {[k |-> "object", f |-> x] :
             x \in {Undef, Null, Str, NumStr(LOCKED_SUPPLY + 1)}
                   \cup {Num(n) : n \in TotalSupplies}}
NetworkError == [net |-> FALSE, status |-> 0, k |-> "invalid", f |-> Undef]
Answer(st, b) == [net |-> TRUE, status |-> st, k |-> b.k, f |-> b.f]
OracleResponses ==
    {NetworkError}
    \cup {Answer(st, b) : st \in {200, 404, 500}, b \in OracleBodies}

\* The oracle answers a run of updateBalances is checked against, one for
\* each kind of result of fetchCirculatingSupply: 0 after a throw, 0 for a
\* missing field, NaN, a negative and a positive amount.
RunOracleResponses ==
    {NetworkError,
     Answer(200, [k |-> "object", f |-> Undef]),
     Answer(200, [k |-> "object", f |-> Str]),
     Answer(200, [k |-> "object", f |-> Num(100)]),
     Answer(200, [k |-> "object", f |-> Num(LOCKED_SUPPLY + 1)])}
NoResponse == [net |-> FALSE, status |-> -1, k |-> "none", f |-> Undef]

\* response.ok
ResponseOk(resp) == resp.status >= 200 /\ resp.status <= 299

\* The value of `data` is truthy (objects are, null is not, a number is
\* unless it is 0).
DataTruthy(resp) ==
    \/ resp.k = "object"
    \/ resp.k = "number" /\ Truthy(resp.f)

\* data.total_supply once `data` is known not to be null
DataTotalSupply(resp) == IF resp.k = "object" THEN resp.f ELSE Undef

\* fetchCirculatingSupply: every throw inside the try ends in `return 0`.
fetchCirculatingSupply(resp) ==
    IF ~resp.net \/ resp.k = "invalid"
    THEN Returns(Num(0))
    ELSE IF DataTruthy(resp) /\ Truthy(DataTotalSupply(resp))
         THEN Returns(Sub(DataTotalSupply(resp), Num(300000000)))
         ELSE Returns(Num(0))

(* ---------------------- frontend oracle client ------------------------- *)
\* parseFloat(x): the leading numeral of String(x), NaN when there is none.
ParseFloat(x) ==
    CASE x.t = "num" -> x
      [] x.t = "numstr" -> Num(x.v)
      [] OTHER -> NaN

\* fetchTotalSupply: throws on a network error, a non-2xx status, an
\* unparsable body and a null body (property access on null); otherwise
\* parseFloat(data.total_supply || data), where parseFloat of an object
\* is NaN.
fetchTotalSupply(resp) ==
    IF ~resp.net \/ ~ResponseOk(resp) \/ resp.k \in {"invalid", "null"}
    THEN Throws
    ELSE IF Truthy(DataTotalSupply(resp))
         THEN Returns(ParseFloat(DataTotalSupply(resp)))
         ELSE IF resp.k = "number"
              THEN Returns(ParseFloat(resp.f))
              ELSE Returns(NaN)

\* The circulatingSupply field of fetchWOOMetrics' result, given the total
\* supply outcome (the price data being available).
MetricsCirculatingSupply(total) ==
    IF total.threw THEN Throws ELSE Returns(Sub(total.val, Num(LOCKED_SUPPLY)))

(* ----------------------------- Chain Adapters -------------------------- *)
\* An answer to an adapter's RPC.  EVM: k = "fail" (a contract call
\* rejects: network error, malformed response, revert) or "ok" with the
\* normalised amount f.  Solana: k = "neterr" (fetch or json() rejects),
\* "error" (RPC error payload, no result), "value" (result.value present,
\* f is its uiAmount field, Undef when the field is missing).  The amounts
\* an adapter reads are 0 and MaxAmount.
Amounts == {0, MaxAmount}
EVMResponses ==
    {[k |-> "fail", f |-> Undef]} \cup {[k |-> "ok", f |-> Num(n)] : n \in Amounts}
SolanaResponses ==
    {[k |-> "neterr", f |-> Undef], [k |-> "error", f |-> Undef]}
    \cup {[k |-> "value", f |-> x] : x \in {Undef} \cup {Num(n) : n \in Amounts}}

\* The answers an EVM adapter call can get: for a network that CHAINS does
\* not list, config.rpc throws before any request is made.
NoAnswer == [k |-> "none", f |-> Undef]
EVMAnswers(chainName, answers) ==
    IF chainName \in CHAINS THEN answers ELSE {NoAnswer}

\* fetchEVMTotalSupply without its try/catch: a failed call rejects.
fetchEVMTotalSupplyUncaught(chainName, resp) ==
    IF chainName \notin CHAINS \/ resp.k # "ok"
    THEN Throws
    ELSE Returns(resp.f)

\* fetchEVMTotalSupply: every throw inside the try ends in `return 0`.
fetchEVMTotalSupply(chainName, resp) ==
    IF chainName \notin CHAINS \/ resp.k # "ok"
    THEN Returns(Num(0))
    ELSE Returns(resp.f)

\* fetchSolanaTotalSupply
fetchSolanaTotalSupply(resp) ==
    IF resp.k = "value"
    THEN Returns(ToNumber(resp.f))
    ELSE Returns(Num(0))

(* ------------------------------ Record Store -------------------------- *)
\* The shapes a record of links.json takes: a link of another category, an
\* explorer link with a contract address (eligible), an explorer link
\* without one.  contractAddress "" stands for an absent field.  tokenBalance
\* is what an earlier run left in the file: absent, null or a number.
RecordShapes ==
    {[name |-> "WOOFi Pro", category |-> "Platform", contractAddress |-> "",
      tokenBalance |-> Undef],
     [name |-> "Ethereum", category |-> "Explorers", contractAddress |-> "0xE",
      tokenBalance |-> Num(1)],
     [name |-> "Solana", category |-> "Explorers", contractAddress |-> "4vM",
      tokenBalance |-> Num(1)],
     [name |-> "BSC", category |-> "Explorers", contractAddress |-> "0xB",
      tokenBalance |-> Null],
     [name |-> "Tron", category |-> "Explorers", contractAddress |-> "TQn",
      tokenBalance |-> Undef],
     [name |-> "Near", category |-> "Explorers", contractAddress |-> "",
      tokenBalance |-> Undef]}

\* Every record list of at most MaxLinks records; id is the record's
\* position in the file that is read, and stands for the object's identity.
Stores ==
    UNION {{[i \in 1 .. n |->
                [id |-> i, name |-> s[i].name, category |-> s[i].category,
                 contractAddress |-> s[i].contractAddress,
                 tokenBalance |-> s[i].tokenBalance]] :
            s \in [1 .. n -> RecordShapes]} : n \in 0 .. MaxLinks}

(* ---------------------------- sequence helpers ------------------------- *)
\* Array.prototype.filter: the indices from i on, in order, whose element
\* passes the test; keep[j] is the test's result for element j.
RECURSIVE FilterIdx(_, _)
FilterIdx(keep, i) ==
    IF i > Len(keep) THEN <<>>
    ELSE (IF keep[i] THEN <<i>> ELSE <<>>) \o FilterIdx(keep, i + 1)

\* bridgedBalances.reduce((sum, balance) => sum + balance, 0)
RECURSIVE Reduce(_, _)
Reduce(bs, sum) ==
    IF bs = <<>> THEN sum ELSE Reduce(Tail(bs), Add(sum, Head(bs)))

\* All orderings of the elements of the sequence e (of distinct elements)
Orderings(e) ==
    {p \in [1 .. Len(e) -> {e[i] : i \in 1 .. Len(e)}] :
        \A i, j \in 1 .. Len(e) : i # j => p[i] # p[j]}

(* ------------------------------- the sort ------------------------------ *)
\* Mutant: the comparator (a, b) => a.tokenBalance - b.tokenBalance
CompareAscending(a, b) ==
    LET d == Sub(a.tokenBalance, b.tokenBalance)
    IN IF d.t = "nan" THEN 0 ELSE IF d.v < 0 THEN -1 ELSE IF d.v > 0 THEN 1 ELSE 0

\* (a, b) => b.tokenBalance - a.tokenBalance, as the sort reads it: the
\* sign of the result, a NaN result counting as +0.
Compare(a, b) ==
    LET d == Sub(b.tokenBalance, a.tokenBalance)
    IN IF d.t = "nan" THEN 0 ELSE IF d.v < 0 THEN -1 ELSE IF d.v > 0 THEN 1 ELSE 0

\* The comparator is a consistent comparator for the records L[e[i]]
\* (ECMAScript, Array.prototype.sort): equal, less and greater are
\* transitive.
ConsistentComparator(L, e) ==
    \A i, j, k \in 1 .. Len(e) :
        LET a == L[e[i]]
            b == L[e[j]]
            c == L[e[k]]
        IN /\ (Compare(a, b) = 0 /\ Compare(b, c) = 0) => Compare(a, c) = 0
           /\ (Compare(a, b) < 0 /\ Compare(b, c) < 0) => Compare(a, c) < 0
           /\ (Compare(a, b) = 0 /\ Compare(b, c) < 0) => Compare(a, c) < 0
           /\ (Compare(a, b) < 0 /\ Compare(b, c) = 0) => Compare(a, c) < 0

\* Stable insertion of index x into the sorted index sequence e: after every
\* element that does not compare greater than it.
RECURSIVE Insert(_, _, _)
Insert(L, e, x) ==
    IF e = <<>> THEN <<x>>
    ELSE IF Compare(L[Head(e)], L[x]) <= 0
         THEN <<Head(e)>> \o Insert(L, Tail(e), x)
         ELSE <<x>> \o e

RECURSIVE StableSort(_, _)
StableSort(L, e) ==
    IF e = <<>> THEN <<>>
    ELSE Insert(L, StableSort(L, SubSeq(e, 1, Len(e) - 1)), e[Len(e)])

\* explorerLinks.sort(comparator): the stable sorted order when the
\* comparator is consistent; otherwise the order is implementation-defined
\* and only known to be a permutation.
SortOutcomes(L, e) ==
    IF ConsistentComparator(L, e) THEN {StableSort(L, e)} ELSE Orderings(e)

(* ------------------------ the residual computation -------------------- *)
\* The residual floored at zero
ResidualBalanceClamped(circulating, bridged) ==
    LET d == Sub(circulating, Reduce(bridged, Num(0)))
    IN IF d.t = "num" /\ d.v < 0 THEN Num(0) ELSE d

\* Lines 172-173: circulatingSupply - totalBridged
ResidualBalance(circulating, bridged) ==
    Sub(circulating, Reduce(bridged, Num(0)))

(* ------------------------------- the state ---------------------------- *)
VARIABLES
    store,              \* links.json on disk: a sequence of records
    pc,                 \* where the running program is suspended
    readLinks,          \* the list JSON.parse returned (history)
    links,              \* that list in memory; its records are updated
    explorerLinks,      \* indices into links of the eligible records
    circulatingSupply,  \* result of fetchCirculatingSupply
    oracleResp,         \* the oracle's answer to the script (history)
    bridgedBalances,    \* balances pushed by the loop
    pos,                \* position of the for-of loop in explorerLinks
    adapterCalls,       \* the adapter calls made, in order (history)
    inflight,           \* the external requests issued and not yet settled
    counts,             \* how often the file was read, written, the oracle called
    io,                 \* outcome of the file read and of the file write
    exitCode,           \* -1 while running, then the process exit code
    webResp,            \* the answer the oracle endpoint serves the clients
    webSupply,          \* frontend: circulatingSupply of fetchWOOMetrics
    localStorage,       \* frontend: the cache entry stored under each key
    now,                \* frontend: Date.now()
    gcf,                \* frontend: the getCachedOrFetch call for each key
    page                \* frontend: the page and its DOMContentLoaded handler

vars == <<store, pc, readLinks, links, explorerLinks, circulatingSupply,
          oracleResp, bridgedBalances, pos, adapterCalls, inflight, counts,
          io, exitCode, webResp, webSupply, localStorage, now, gcf, page>>

pageVars == <<localStorage, now, gcf, page>>

webVars == <<webResp, webSupply, pageVars>>

(* --------------------------- the frontend cache ------------------------ *)
\* const CACHE_DURATION = 5 * 60 * 1000
CACHE_DURATION == 300000

CacheKeys == {"woo_total_supply", "woo_price_data"}

\* localStorage.getItem(key) is null
NoEntry == [data |-> Undef, timestamp |-> -1]

\* Mutant: an entry counts as fresh up to and including CACHE_DURATION
FreshOrEqual(cached, t) ==
    cached # NoEntry /\ t - cached.timestamp <= CACHE_DURATION

\* if (cached) { ...; const age = Date.now() - timestamp;
\*               if (age < CACHE_DURATION) ...
Fresh(cached, t) ==
    cached # NoEntry /\ t - cached.timestamp < CACHE_DURATION

\* The answers of the price endpoint: the request fails (network error,
\* non-2xx status, unparsable body), or the body has the 'woo-network'
\* object, or lacks it.
PriceObject == [t |-> "obj", v |-> 0]
PriceResponses ==
    {[k |-> "fail", f |-> Undef], [k |-> "ok", f |-> PriceObject],
     [k |-> "ok", f |-> Undef]}

\* fetchPriceData
fetchPriceData(resp) ==
    IF resp.k = "fail" THEN Throws ELSE Returns(resp.f)

\* The answers of the total-supply endpoint the page is checked against:
\* a network error, a non-2xx status, a numeric and a non-numeric field.
PageSupplyResponses ==
    {NetworkError,
     Answer(500, [k |-> "object", f |-> Num(LOCKED_SUPPLY + 1)]),
     Answer(200, [k |-> "object", f |-> Num(LOCKED_SUPPLY + 1)]),
     Answer(200, [k |-> "object", f |-> Str])}

\* The fetch function fetchWOOMetrics passes for each key, and the answers
\* its request can get
FetchResponses(key) ==
    IF key = "woo_total_supply" THEN PageSupplyResponses ELSE PriceResponses
FetchFunction(key, resp) ==
    IF key = "woo_total_supply" THEN fetchTotalSupply(resp)
    ELSE fetchPriceData(resp)

\* A getCachedOrFetch call that has not been made
NoCall ==
    [st |-> "idle", calls |-> 0, ret |-> Undef, cached |-> NoEntry, at |-> 0]

\* getCachedOrFetch up to its await: a fresh entry is returned, otherwise
\* the fetch function is called.  cached and at record what getItem
\* returned and when.
GetCachedOrFetch(key) ==
    LET cached == localStorage[key]
    IN IF Fresh(cached, now)
       THEN [st |-> "returned", calls |-> 0, ret |-> cached.data,
             cached |-> cached, at |-> now]
       ELSE [st |-> "fetching", calls |-> 1, ret |-> Undef,
             cached |-> cached, at |-> now]

\* Mutant: Promise.allSettled: waits for every call, never rejects
PromiseAllSettled(g) ==
    IF \E k \in CacheKeys : g[k].st = "fetching" THEN "pending"
    ELSE "resolved"

\* Promise.all over the two calls: rejected as soon as one rejected,
\* resolved when both resolved.
PromiseAll(g) ==
    IF \E k \in CacheKeys : g[k].st = "threw" THEN "rejected"
    ELSE IF \A k \in CacheKeys : g[k].st = "returned" THEN "resolved"
    ELSE "pending"

\* fetchWOOMetrics: rethrows a rejection; priceData.usd throws when the
\* price data is undefined or null.
fetchWOOMetrics(g) ==
    IF PromiseAll(g) = "resolved"
    THEN IF g["woo_price_data"].ret.t \in {"undef", "null"}
         THEN "rejected" ELSE "resolved"
    ELSE PromiseAll(g)

(* ------------------------------ the page ------------------------------- *)
\* What data/links.json serves: the request fails (network error, non-2xx
\* status, unparsable body) or the body is a list of n records, an object
\* or null.
LinksResponses ==
    {[k |-> "fail", n |-> 0], [k |-> "list", n |-> 0], [k |-> "list", n |-> 2],
     [k |-> "object", n |-> 0], [k |-> "null", n |-> 0]}

\* loadLinks: the parsed body; [] after showError when the request failed
loadLinks(resp) ==
    IF resp.k = "fail" THEN [k |-> "list", n |-> 0]
    ELSE [k |-> resp.k, n |-> resp.n]

\* Mutant: the test wooLinks.length >= 0
ShouldRenderEmpty(w) == w.k = "list" /\ w.n >= 0

\* wooLinks.length > 0 (undefined > 0 is false for an object)
ShouldRender(w) == w.k = "list" /\ w.n > 0

\* The document before DOMContentLoaded, after `loads` loads and `ticks`
\* clock steps
FreshPage(loads, ticks) ==
    [loads |-> loads, ticks |-> ticks, handler |-> "idle", links |-> "idle",
     wooLinks |-> [k |-> "list", n |-> 0], linksError |-> FALSE,
     stats |-> "idle", rendered |-> FALSE, filters |-> FALSE]

\* No page is open
NoPage ==
    /\ localStorage = [k \in CacheKeys |-> NoEntry]
    /\ now = 0
    /\ gcf = [k \in CacheKeys |-> NoCall]
    /\ page = FreshPage(0, 0)

\* link.category === 'Explorers' && link.contractAddress
Eligible(link) == link.category = "Explorers" /\ link.contractAddress # ""

\* link.category !== 'Explorers'
NonExplorer(link) == link.category # "Explorers"

IsEthereum(link) == link.name = "Ethereum"

\* Mutant: the eligible records are visited last to first
ExplorerLinksReversed(L) ==
    LET e == FilterIdx([i \in 1 .. Len(L) |-> Eligible(L[i])], 1)
    IN [n \in 1 .. Len(e) |-> e[Len(e) + 1 - n]]

\* links.filter(link => link.category === 'Explorers' && link.contractAddress)
ExplorerLinks(L) == FilterIdx([i \in 1 .. Len(L) |-> Eligible(L[i])], 1)

\* links.filter(link => link.category !== 'Explorers')
NonExplorerLinks(L) == FilterIdx([i \in 1 .. Len(L) |-> NonExplorer(L[i])], 1)

\* explorerLinks.find(link => link.name === 'Ethereum'): the index into
\* links of the first eligible record named Ethereum, 0 when there is none.
EthereumLink(L, e) ==
    LET hits == {i \in 1 .. Len(e) : IsEthereum(L[e[i]])}
    IN IF hits = {} THEN 0
       ELSE e[CHOOSE i \in hits : \A j \in hits : i <= j]

\* The merge with the sorted explorers in front
UpdatedLinksExplorersFirst(L, sorted) ==
    LET non == NonExplorerLinks(L)
    IN [i \in 1 .. Len(sorted) |-> L[sorted[i]]]
       \o [i \in 1 .. Len(non) |-> L[non[i]]]

\* [...nonExplorerLinks, ...sortedExplorers]
UpdatedLinks(L, sorted) ==
    LET non == NonExplorerLinks(L)
    IN [i \in 1 .. Len(non) |-> L[non[i]]]
       \o [i \in 1 .. Len(sorted) |-> L[sorted[i]]]

\* JSON.stringify(updatedLinks) as a later JSON.parse reads it back
Serialize(list) ==
    [i \in 1 .. Len(list) |->
        [list[i] EXCEPT !.tokenBalance = JsonRoundTrip(@)]]

Init ==
    /\ store \in Stores
    /\ pc = "load"
    /\ readLinks = <<>>
    /\ links = <<>>
    /\ explorerLinks = <<>>
    /\ circulatingSupply = Undef
    /\ oracleResp = NoResponse
    /\ bridgedBalances = <<>>
    /\ pos = 1
    /\ adapterCalls = <<>>
    /\ inflight = {}
    /\ counts = [reads |-> 0, writes |-> 0, oracle |-> 0]
    /\ io = [read |-> "none", write |-> "none"]
    /\ exitCode = -1
    /\ webResp = NoResponse
    /\ webSupply = Pending
    /\ NoPage

(* ------------------------------ updateBalances ------------------------- *)
\* An external request: the oracle call, or an adapter call for record id
OracleRequest == [fn |-> "oracle", id |-> 0]
AdapterRequest(link) ==
    [fn |-> IF link.name = "Solana" THEN "solana" ELSE "evm", id |-> link.id]

\* Lines 197-200: updateBalances rejected; the top-level catch exits with 1.
Fatal ==
    /\ pc' = "exited"
    /\ exitCode' = 1

\* Lines 5-12: require('ethers'); when the module cannot be loaded the
\* script exits with code 0 before updateBalances is called.
RequireEthers ==
    /\ pc = "load"
    /\ \E ok \in BOOLEAN :
          IF ok
          THEN pc' = "start" /\ UNCHANGED exitCode
          ELSE pc' = "exited" /\ exitCode' = 0
    /\ UNCHANGED <<store, readLinks, links, explorerLinks, circulatingSupply,
                   oracleResp, bridgedBalances, pos, adapterCalls, inflight,
                   counts, io, webVars>>

\* Lines 137-147: read and parse links.json, select the eligible records,
\* start the oracle request.  A failed read or parse rejects.
ReadStore ==
    /\ pc = "start"
    /\ \E ok \in BOOLEAN :
          IF ok
          THEN /\ io' = [io EXCEPT !.read = "ok"]
               /\ readLinks' = store
               /\ links' = store
               /\ explorerLinks' = ExplorerLinks(store)
               /\ inflight' = inflight \cup {OracleRequest}
               /\ counts' = [counts EXCEPT !.reads = @ + 1, !.oracle = @ + 1]
               /\ pc' = "oracle"
               /\ UNCHANGED exitCode
          ELSE /\ io' = [io EXCEPT !.read = "failed"]
               /\ counts' = [counts EXCEPT !.reads = @ + 1]
               /\ Fatal
               /\ UNCHANGED <<readLinks, links, explorerLinks, inflight>>
    /\ UNCHANGED <<store, circulatingSupply, oracleResp, bridgedBalances, pos,
                   adapterCalls, webVars>>

\* Line 147: the oracle request settles, with one of the given answers.
OracleSettles(answers) ==
    /\ pc = "oracle"
    /\ OracleRequest \in inflight
    /\ inflight' = inflight \ {OracleRequest}
    /\ \E resp \in answers :
          LET r == fetchCirculatingSupply(resp)
          IN /\ oracleResp' = resp
             /\ IF r.threw
                THEN Fatal /\ UNCHANGED circulatingSupply
                ELSE /\ circulatingSupply' = r.val
                     /\ pc' = "loop"
                     /\ UNCHANGED exitCode
    /\ UNCHANGED <<store, readLinks, links, explorerLinks, bridgedBalances,
                   pos, adapterCalls, counts, io, webVars>>

OracleReturns == OracleSettles(RunOracleResponses)

\* Lines 153-155: the loop skips a record named Ethereum.
SkipEthereum ==
    /\ pc = "loop"
    /\ pos <= Len(explorerLinks)
    /\ IsEthereum(links[explorerLinks[pos]])
    /\ pos' = pos + 1
    /\ UNCHANGED <<store, pc, readLinks, links, explorerLinks,
                   circulatingSupply, oracleResp, bridgedBalances,
                   adapterCalls, inflight, counts, io, exitCode, webVars>>

\* Lines 157-161: the next iteration starts (after the 500 ms pause of the
\* one before) and calls the adapter for a record of another network.
CallAdapter ==
    /\ pc = "loop"
    /\ pos <= Len(explorerLinks)
    /\ ~IsEthereum(links[explorerLinks[pos]])
    /\ inflight' = inflight \cup {AdapterRequest(links[explorerLinks[pos]])}
    /\ pc' = "await"
    /\ UNCHANGED <<store, readLinks, links, explorerLinks, circulatingSupply,
                   oracleResp, bridgedBalances, pos, adapterCalls, counts, io,
                   exitCode, webVars>>

\* The record of one adapter call
Call(fn, link, resp, r) ==
    [fn |-> fn, id |-> link.id, name |-> link.name, resp |-> resp,
     result |-> r]

\* Lines 157-163 after the adapter settled with r: the balance is stored in
\* the record and pushed; a rejection would reject updateBalances.
StoreBalance(x, r) ==
    IF r.threw
    THEN /\ Fatal
         /\ UNCHANGED <<links, bridgedBalances, pos>>
    ELSE /\ links' = [links EXCEPT ![x].tokenBalance = r.val]
         /\ bridgedBalances' = Append(bridgedBalances, r.val)
         /\ pos' = pos + 1
         /\ pc' = "loop"
         /\ UNCHANGED exitCode

\* Lines 157-166: the adapter call of the iteration settles, with one of
\* the given answers of its kind of RPC; the balance is stored and the
\* 500 ms pause starts.
AdapterSettles(evmAnswers, solanaAnswers) ==
    /\ pc = "await"
    /\ LET x == explorerLinks[pos]
           link == links[x]
       IN /\ AdapterRequest(link) \in inflight
          /\ inflight' = inflight \ {AdapterRequest(link)}
          /\ \/ /\ link.name = "Solana"
                /\ \E resp \in solanaAnswers :
                      LET r == fetchSolanaTotalSupply(resp)
                      IN /\ StoreBalance(x, r)
                         /\ adapterCalls' =
                               Append(adapterCalls, Call("solana", link, resp, r))
             \/ /\ link.name # "Solana"
                /\ \E resp \in EVMAnswers(link.name, evmAnswers) :
                      LET r == fetchEVMTotalSupply(link.name, resp)
                      IN /\ StoreBalance(x, r)
                         /\ adapterCalls' =
                               Append(adapterCalls, Call("evm", link, resp, r))
    /\ UNCHANGED <<store, readLinks, explorerLinks, circulatingSupply,
                   oracleResp, counts, io, webVars>>

FetchBalance == AdapterSettles(EVMResponses, SolanaResponses)

\* Mutant: the pass ends after the sort, without writing the file
SortOnly(L) ==
    /\ links' = L
    /\ pc' = "exited"
    /\ exitCode' = 0
    /\ UNCHANGED <<store, explorerLinks, counts, io>>

\* Lines 183-193: sort the eligible records of L in place, put the
\* non-explorer records in front, write the file.  A failed write rejects
\* and leaves the file as it was.
SortAndWrite(L) ==
    /\ links' = L
    /\ counts' = [counts EXCEPT !.writes = @ + 1]
    /\ \E sorted \in SortOutcomes(L, explorerLinks) :
          /\ explorerLinks' = sorted
          /\ \E ok \in BOOLEAN :
                IF ok
                THEN /\ store' = Serialize(UpdatedLinks(L, sorted))
                     /\ io' = [io EXCEPT !.write = "ok"]
                     /\ pc' = "exited"
                     /\ exitCode' = 0
                ELSE /\ store' = store
                     /\ io' = [io EXCEPT !.write = "failed"]
                     /\ Fatal

\* Mutant: the code after the loop does not wait for the loop to end
LoopDoneEarly == pc = "loop"

\* Lines 152-167: the for-of loop has visited every eligible record
LoopDone == pc = "loop" /\ pos > Len(explorerLinks)

\* Lines 170-177: the residual branch, then sort and write.
ComputeResidual ==
    /\ LoopDone
    /\ LET eth == EthereumLink(links, explorerLinks)
       IN /\ eth # 0
          /\ GreaterThanZero(circulatingSupply)
          /\ SortAndWrite([links EXCEPT ![eth].tokenBalance =
                              ResidualBalance(circulatingSupply, bridgedBalances)])
    /\ UNCHANGED <<readLinks, circulatingSupply, oracleResp, bridgedBalances,
                   pos, adapterCalls, inflight, webVars>>

\* Lines 178-180: the fallback branch calls the EVM adapter for Ethereum.
CallFallback ==
    /\ LoopDone
    /\ LET eth == EthereumLink(links, explorerLinks)
       IN /\ eth # 0
          /\ ~GreaterThanZero(circulatingSupply)
          /\ inflight' = inflight \cup {AdapterRequest(links[eth])}
    /\ pc' = "fallback"
    /\ UNCHANGED <<store, readLinks, links, explorerLinks, circulatingSupply,
                   oracleResp, bridgedBalances, pos, adapterCalls, counts, io,
                   exitCode, webVars>>

\* Lines 180-193: the fallback call settles, its result is the Ethereum
\* balance, then sort and write.
FallbackSettles(evmAnswers) ==
    /\ pc = "fallback"
    /\ LET eth == EthereumLink(links, explorerLinks)
       IN /\ AdapterRequest(links[eth]) \in inflight
          /\ inflight' = inflight \ {AdapterRequest(links[eth])}
          /\ \E resp \in EVMAnswers("Ethereum", evmAnswers) :
                LET r == fetchEVMTotalSupply("Ethereum", resp)
                IN /\ adapterCalls' =
                         Append(adapterCalls, Call("evm", links[eth], resp, r))
                   /\ IF r.threw
                      THEN Fatal /\ UNCHANGED <<store, links, explorerLinks,
                                                counts, io>>
                      ELSE SortAndWrite([links EXCEPT ![eth].tokenBalance = r.val])
    /\ UNCHANGED <<readLinks, circulatingSupply, oracleResp, bridgedBalances,
                   pos, webVars>>

FallbackFetch == FallbackSettles(EVMResponses)

\* No eligible record is named Ethereum: sort and write.
NoResidual ==
    /\ LoopDone
    /\ EthereumLink(links, explorerLinks) = 0
    /\ SortAndWrite(links)
    /\ UNCHANGED <<readLinks, circulatingSupply, oracleResp, bridgedBalances,
                   pos, adapterCalls, inflight, webVars>>

Next ==
    \/ RequireEthers
    \/ ReadStore
    \/ OracleReturns
    \/ SkipEthereum
    \/ CallAdapter
    \/ FetchBalance
    \/ ComputeResidual
    \/ CallFallback
    \/ FallbackFetch
    \/ NoResidual

Spec == Init /\ [][Next]_vars

\* The run when every request that was issued eventually settles and the
\* script keeps executing: every enabled step is eventually taken.  The
\* file holds at most MaxLiveLinks records with names that differ, none of
\* them of an unlisted network or without an address.
LiveStores ==
    {s \in Stores :
        /\ Len(s) <= MaxLiveLinks
        /\ \A i \in 1 .. Len(s) : s[i].name \notin {"Tron", "Near"}
        /\ \A i, j \in 1 .. Len(s) : s[i].name = s[j].name => i = j}

InitLive == Init /\ store \in LiveStores

SpecLive == InitLive /\ [][Next]_vars /\ WF_vars(Next)

(* ------------------- a second run on the written list ------------------- *)
\* What the adapter returned in this run for the record id, and for the
\* network Ethereum: a second run is given the same answers.
ResultFor(id) ==
    LET k == CHOOSE n \in 1 .. Len(adapterCalls) : adapterCalls[n].id = id
    IN adapterCalls[k].result.val
ResultForEthereum ==
    LET k == CHOOSE n \in 1 .. Len(adapterCalls) :
                adapterCalls[n].name = "Ethereum"
    IN adapterCalls[k].result.val

\* Lines 152-167 run on the list W: every eligible record not named
\* Ethereum gets its adapter result; the results in call order.
RerunLoop(W) ==
    [x \in 1 .. Len(W) |->
        IF Eligible(W[x]) /\ ~IsEthereum(W[x])
        THEN [W[x] EXCEPT !.tokenBalance = ResultFor(W[x].id)]
        ELSE W[x]]
RerunBridged(W) ==
    LET called == FilterIdx([x \in 1 .. Len(W) |->
                                Eligible(W[x]) /\ ~IsEthereum(W[x])], 1)
    IN [n \in 1 .. Len(called) |-> ResultFor(W[called[n]].id)]

\* Lines 170-181 run on the list W
RerunResidual(W) ==
    LET eth == EthereumLink(W, ExplorerLinks(W))
        L == RerunLoop(W)
    IN IF eth = 0 THEN L
       ELSE IF GreaterThanZero(circulatingSupply)
            THEN [L EXCEPT ![eth].tokenBalance =
                     ResidualBalance(circulatingSupply, RerunBridged(W))]
            ELSE [L EXCEPT ![eth].tokenBalance = ResultForEthereum]

\* Lines 141-191 run on the list W with the oracle answer and the adapter
\* answers of this run: the lists a second run can write.
RerunWrites(W) ==
    {Serialize(UpdatedLinks(RerunResidual(W), sorted)) :
        sorted \in SortOutcomes(RerunResidual(W), ExplorerLinks(W))}

(* ------------------------ an end-to-end scenario ------------------------ *)
\* The file holds three eligible records, one for each of Ethereum, BSC and
\* Solana, in any order; the oracle reports a total supply of 1,000,000,000
\* or is unreachable; every adapter call reports 100 or 50.
ScenarioTotalSupply == 1000000000
ScenarioAmounts == {100, 50}
ScenarioStores ==
    {s \in Stores :
        /\ Len(s) = 3
        /\ {s[i].name : i \in 1 .. 3} = {"Ethereum", "BSC", "Solana"}}
ScenarioOracleResponses ==
    {NetworkError,
     Answer(200, [k |-> "object", f |-> Num(ScenarioTotalSupply)])}
ScenarioEVMResponses == {[k |-> "ok", f |-> Num(n)] : n \in ScenarioAmounts}
ScenarioSolanaResponses ==
    {[k |-> "value", f |-> Num(n)] : n \in ScenarioAmounts}

InitScenario == Init /\ store \in ScenarioStores

ScenarioOracleReturns == OracleSettles(ScenarioOracleResponses)
ScenarioFetchBalance ==
    AdapterSettles(ScenarioEVMResponses, ScenarioSolanaResponses)
ScenarioFallbackFetch == FallbackSettles(ScenarioEVMResponses)

NextScenario ==
    \/ RequireEthers
    \/ ReadStore
    \/ ScenarioOracleReturns
    \/ SkipEthereum
    \/ CallAdapter
    \/ ScenarioFetchBalance
    \/ ComputeResidual
    \/ CallFallback
    \/ ScenarioFallbackFetch

SpecScenario == InitScenario /\ [][NextScenario]_vars

(* ------------------- the two oracle clients side by side --------------- *)
\* The endpoint serves one answer; the script's client and the frontend's
\* client each read it once.
InitOracle ==
    /\ store = <<>>
    /\ pc = "clients"
    /\ readLinks = <<>>
    /\ links = <<>>
    /\ explorerLinks = <<>>
    /\ circulatingSupply = Undef
    /\ oracleResp = NoResponse
    /\ bridgedBalances = <<>>
    /\ pos = 1
    /\ adapterCalls = <<>>
    /\ inflight = {}
    /\ counts = [reads |-> 0, writes |-> 0, oracle |-> 0]
    /\ io = [read |-> "none", write |-> "none"]
    /\ exitCode = -1
    /\ webResp \in OracleResponses
    /\ webSupply = Pending
    /\ NoPage

\* The script's client: fetchCirculatingSupply()
ScriptClient ==
    /\ pc = "clients"
    /\ oracleResp = NoResponse
    /\ LET r == fetchCirculatingSupply(webResp)
       IN /\ ~r.threw
          /\ circulatingSupply' = r.val
    /\ oracleResp' = webResp
    /\ UNCHANGED <<store, pc, readLinks, links, explorerLinks, bridgedBalances,
                   pos, adapterCalls, inflight, counts, io, exitCode, webVars>>

\* The frontend's client: fetchTotalSupply() as fetchWOOMetrics uses it
WebClient ==
    /\ pc = "clients"
    /\ webSupply = Pending
    /\ webSupply' = MetricsCirculatingSupply(fetchTotalSupply(webResp))
    /\ UNCHANGED <<store, pc, readLinks, links, explorerLinks,
                   circulatingSupply, oracleResp, bridgedBalances, pos,
                   adapterCalls, inflight, counts, io, exitCode, webResp,
                   pageVars>>

NextOracle == ScriptClient \/ WebClient

SpecOracle == InitOracle /\ [][NextOracle]_vars

(* ------------------------- the page being loaded ----------------------- *)
\* A first visit: nothing is cached.
InitPage ==
    /\ store = <<>>
    /\ pc = "page"
    /\ readLinks = <<>>
    /\ links = <<>>
    /\ explorerLinks = <<>>
    /\ circulatingSupply = Undef
    /\ oracleResp = NoResponse
    /\ bridgedBalances = <<>>
    /\ pos = 1
    /\ adapterCalls = <<>>
    /\ inflight = {}
    /\ counts = [reads |-> 0, writes |-> 0, oracle |-> 0]
    /\ io = [read |-> "none", write |-> "none"]
    /\ exitCode = -1
    /\ webResp = NoResponse
    /\ webSupply = Pending
    /\ NoPage

scriptVars ==
    <<store, pc, readLinks, links, explorerLinks, circulatingSupply,
      oracleResp, bridgedBalances, pos, adapterCalls, inflight, counts, io,
      exitCode, webResp, webSupply>>

\* app.js 719-734: DOMContentLoaded: the handler starts loadLinks and
\* loadStats; loadStats calls fetchWOOMetrics, which starts the two
\* getCachedOrFetch calls; each runs up to its first await.
PageLoad ==
    /\ pc = "page"
    /\ page.handler = "idle"
    /\ page.loads < MaxLoads
    /\ gcf' = [k \in CacheKeys |-> GetCachedOrFetch(k)]
    /\ page' = [page EXCEPT !.loads = @ + 1, !.handler = "waiting",
                            !.links = "pending", !.stats = "loading"]
    /\ UNCHANGED <<scriptVars, localStorage, now>>

\* app.js 289-303: the request for data/links.json settles and loadLinks
\* returns.
LinksSettle ==
    /\ pc = "page"
    /\ page.links = "pending"
    /\ \E resp \in LinksResponses :
          page' = [page EXCEPT !.links = "settled",
                               !.wooLinks = loadLinks(resp),
                               !.linksError = (resp.k = "fail")]
    /\ UNCHANGED <<scriptVars, localStorage, now, gcf>>

\* Lines 258-266: the fetch function of the call for key settles: when it
\* resolves the entry is stored and the data returned, when it rejects the
\* call rejects.
FetchSettles(key) ==
    /\ pc = "page"
    /\ gcf[key].st = "fetching"
    /\ \E resp \in FetchResponses(key) :
          LET r == FetchFunction(key, resp)
          IN IF r.threw
             THEN /\ gcf' = [gcf EXCEPT ![key].st = "threw"]
                  /\ UNCHANGED localStorage
             ELSE /\ localStorage' =
                        [localStorage EXCEPT
                            ![key] = [data |-> JsonRoundTrip(r.val),
                                      timestamp |-> now]]
                  /\ gcf' = [gcf EXCEPT ![key].st = "returned",
                                        ![key].ret = r.val]
    /\ UNCHANGED <<scriptVars, now, page>>

\* app.js 684-694: fetchWOOMetrics settles: loadStats renders the metrics
\* or the error state, and returns.
StatsSettle ==
    /\ pc = "page"
    /\ page.stats = "loading"
    /\ fetchWOOMetrics(gcf) # "pending"
    /\ page' = [page EXCEPT !.stats = IF fetchWOOMetrics(gcf) = "resolved"
                                      THEN "rendered" ELSE "error"]
    /\ UNCHANGED <<scriptVars, localStorage, now, gcf>>

\* app.js 729-741: both loadLinks and loadStats have settled: the handler
\* goes on, and renders the links and installs the filters when the list is
\* not empty.  Reading .length of null throws.
HandlerResumes ==
    /\ pc = "page"
    /\ page.handler = "waiting"
    /\ page.links = "settled"
    /\ page.stats \in {"rendered", "error"}
    /\ page' = IF page.wooLinks.k = "null"
               THEN [page EXCEPT !.handler = "threw"]
               ELSE [page EXCEPT !.handler = "done",
                                 !.rendered = ShouldRender(page.wooLinks),
                                 !.filters = ShouldRender(page.wooLinks)]
    /\ UNCHANGED <<scriptVars, localStorage, now, gcf>>

\* Time passes: a millisecond, or a millisecond less than CACHE_DURATION.
Tick ==
    /\ pc = "page"
    /\ page.ticks < MaxTicks
    /\ \E d \in {1, CACHE_DURATION - 1} : now' = now + d
    /\ page' = [page EXCEPT !.ticks = @ + 1]
    /\ UNCHANGED <<scriptVars, localStorage, gcf>>

\* The page is loaded again (the Retry button, a later visit): its pending
\* requests are dropped, localStorage stays.
Reload ==
    /\ pc = "page"
    /\ page.handler # "idle"
    /\ page.loads < MaxLoads
    /\ page' = FreshPage(page.loads, page.ticks)
    /\ gcf' = [k \in CacheKeys |-> NoCall]
    /\ UNCHANGED <<scriptVars, localStorage, now>>

NextPage ==
    \/ PageLoad
    \/ LinksSettle
    \/ \E key \in CacheKeys : FetchSettles(key)
    \/ StatsSettle
    \/ HandlerResumes
    \/ Tick
    \/ Reload

SpecPage == InitPage /\ [][NextPage]_vars

(* ======================= properties of updateBalances ================== *)
\* The pass ran up to the write (which succeeded or failed): links holds
\* the records as the pass left them in memory.
PassDone == pc = "exited" /\ io.read = "ok" /\ io.write # "none"

\* The file was rewritten.
Written == pc = "exited" /\ io.write = "ok"

\* The records of the list that was read, by index (= id)
EligibleRead == {i \in 1 .. Len(readLinks) : Eligible(readLinks[i])}

\* The residual record: the first eligible record named Ethereum in the list
\* that was read; 0 when there is none.
ResidualIdx == EthereumLink(readLinks, ExplorerLinks(readLinks))

\* The eligible records of other networks: those the loop stores a balance in.
BridgedIdx == {i \in EligibleRead : ~IsEthereum(readLinks[i])}

\* Sum of the balances the records S of L hold
RECURSIVE SumBalances(_, _)
SumBalances(L, S) ==
    IF S = {} THEN Num(0)
    ELSE LET i == CHOOSE j \in S : TRUE
         IN Add(L[i].tokenBalance, SumBalances(L, S \ {i}))

\* C1: when the oracle yields a circulating supply C > 0 and there is a
\* residual record, its tokenBalance after the pass is exactly C minus the
\* sum of the balances stored in this pass in the other eligible records;
\* it is not clamped.
C1_ResidualIsSupplyMinusBridged ==
    (PassDone /\ GreaterThanZero(circulatingSupply) /\ ResidualIdx # 0)
    => links[ResidualIdx].tokenBalance =
          Sub(circulatingSupply, SumBalances(links, BridgedIdx))

\* A pass where two bridged balances exceed the circulating supply and the
\* residual is negative.
C1_Witness ==
    /\ PassDone
    /\ GreaterThanZero(circulatingSupply)
    /\ ResidualIdx # 0
    /\ Cardinality(BridgedIdx) >= 2
    /\ links[ResidualIdx].tokenBalance.t = "num"
    /\ links[ResidualIdx].tokenBalance.v < 0

\* The oracle call threw: fetch() or response.json() rejected.
OracleThrew(resp) == resp # NoResponse /\ (~resp.net \/ resp.k = "invalid")

\* The oracle returned malformed data: not an object with a numeric
\* total_supply (nor the bare number the interface also allows).
OracleMalformed(resp) ==
    /\ resp.net
    /\ \/ resp.k = "null"
       \/ resp.k = "object" /\ resp.f.t # "num"

\* The adapter calls made for the residual record
ResidualCalls ==
    {n \in 1 .. Len(adapterCalls) : adapterCalls[n].id = ResidualIdx}

\* C2: if the oracle call throws or returns malformed data, the circulating
\* supply updateBalances uses is 0 and the residual record's tokenBalance is
\* what the direct adapter fetch for the residual network returned.
C2_OracleFailureFallsBack ==
    (PassDone /\ (OracleThrew(oracleResp) \/ OracleMalformed(oracleResp)))
    => /\ circulatingSupply = Num(0)
       /\ ResidualIdx # 0 =>
             /\ ResidualCalls # {}
             /\ \A n \in ResidualCalls :
                   /\ adapterCalls[n].fn = "evm"
                   /\ links[ResidualIdx].tokenBalance = adapterCalls[n].result.val

\* C3: the written list holds every record of the list that was read
\* exactly once, and every non-eligible record with all its fields unchanged.
C3_EveryRecordWrittenOnce ==
    Written =>
       /\ \A i \in 1 .. Len(readLinks) :
             Cardinality({n \in 1 .. Len(store) : store[n].id = i}) = 1
       /\ \A i \in 1 .. Len(readLinks) :
             ~Eligible(readLinks[i]) =>
                \E n \in 1 .. Len(store) : store[n] = readLinks[i]

\* The adapter call failed: network error, malformed response or RPC error
\* payload (Solana: anything but result.value.uiAmount being a number).
AdapterFailed(call) ==
    IF call.fn = "solana"
    THEN call.resp.k # "value" \/ call.resp.f.t # "num"
    ELSE call.resp.k # "ok"

\* C4: after the pass every eligible non-residual record's tokenBalance is a
\* number >= 0, and exactly 0 when its adapter call failed; the adapter
\* never raises.
C4_BridgedBalanceNonNegative ==
    PassDone =>
       /\ \A i \in BridgedIdx :
             /\ links[i].tokenBalance.t = "num"
             /\ links[i].tokenBalance.v >= 0
       /\ \A n \in 1 .. Len(adapterCalls) :
             /\ ~adapterCalls[n].result.threw
             /\ (adapterCalls[n].id \in BridgedIdx /\ AdapterFailed(adapterCalls[n]))
                   => links[adapterCalls[n].id].tokenBalance = Num(0)

\* C5: the invocation ends with exit code 1 only when reading/parsing or
\* writing the store failed; once the store is read, whatever the oracle and
\* the adapters did, it rewrites the store and ends with exit code 0 unless
\* the write itself fails.
C5_FatalOnlyOnStoreIO ==
    pc = "exited" =>
       /\ exitCode \in {0, 1}
       /\ exitCode = 1 <=> (io.read = "failed" \/ io.write = "failed")
       /\ (io.read = "ok" /\ io.write # "failed")
             => (exitCode = 0 /\ io.write = "ok")

\* The oracle and every one of at least two adapter calls failed, and the
\* run rewrote the store and exited with 0.
C5_Witness ==
    /\ pc = "exited"
    /\ exitCode = 0
    /\ io.write = "ok"
    /\ OracleThrew(oracleResp)
    /\ Len(adapterCalls) >= 2
    /\ \A n \in 1 .. Len(adapterCalls) : AdapterFailed(adapterCalls[n])

\* The positions of the written list that hold eligible records
WrittenEligible == {n \in 1 .. Len(store) : Eligible(store[n])}

ZeroOrNull(b) == b.t = "null" \/ (b.t = "num" /\ b.v = 0)

\* C6: in the written list the eligible records are in descending order of
\* tokenBalance, those with a zero or null balance after all others, and
\* records with equal balances in their original relative order.
C6_SortedDescendingZeroLast ==
    Written =>
       \A m, n \in WrittenEligible :
          m < n =>
             LET a == store[m].tokenBalance
                 b == store[n].tokenBalance
             IN /\ ZeroOrNull(a) => ZeroOrNull(b)
                /\ (a.t = "num" /\ b.t = "num") => a.v >= b.v
                /\ a = b => store[m].id < store[n].id

\* C7: in the written list all non-eligible records come before all
\* eligible records, and the non-eligible records keep the relative order
\* they had in the list that was read.
C7_NonEligibleFirstInOrder ==
    Written =>
       \A m, n \in 1 .. Len(store) :
          m < n =>
             /\ ~(Eligible(store[m]) /\ ~Eligible(store[n]))
             /\ (~Eligible(store[m]) /\ ~Eligible(store[n]))
                   => store[m].id < store[n].id

\* A written list with two non-eligible records and an eligible one that
\* stood before them in the list that was read.
C7_Witness ==
    /\ Written
    /\ Len(readLinks) = 3
    /\ Eligible(readLinks[1])
    /\ ~Eligible(readLinks[2])
    /\ ~Eligible(readLinks[3])
    /\ Len(store) = 3
    /\ store[3].id = 1

(* ======================= properties of the oracle clients ============== *)
ScriptDone == pc = "clients" /\ oracleResp # NoResponse

WebDone == pc = "clients" /\ webSupply # Pending

\* C8: fetchCirculatingSupply returns a value >= 0 for every oracle answer:
\* totalSupply - 300,000,000 as a non-negative amount, or 0.
C8_CirculatingSupplyNonNegative ==
    ScriptDone =>
       /\ circulatingSupply.t = "num"
       /\ circulatingSupply.v >= 0

\* The body has no total-supply field.
NoTotalSupplyField(resp) ==
    resp.k \in {"null", "number"} \/ (resp.k = "object" /\ resp.f = Undef)

\* C9: fetchCirculatingSupply returns 0 when the oracle answers with a
\* non-2xx status, whatever the body, and on a network error and on a body
\* without the total-supply field.
C9_ZeroOnAnyFailure ==
    (ScriptDone /\ (~oracleResp.net \/ ~ResponseOk(oracleResp)
                       \/ NoTotalSupplyField(oracleResp)))
    => circulatingSupply = Num(0)

\* The body is {total_supply: T} or the bare number T, served with a 2xx
\* status.
SupplyBody(resp) ==
    /\ resp.net
    /\ ResponseOk(resp)
    /\ resp.k \in {"object", "number"}
    /\ resp.f.t = "num"

\* C10: for a body {total_supply: T} or the bare number T the oracle client
\* derives T - 300,000,000, and the script's fetchCirculatingSupply and the
\* frontend's fetchTotalSupply/fetchWOOMetrics give the same value.
C10_ClientsAgree ==
    (ScriptDone /\ WebDone /\ SupplyBody(webResp))
    => /\ circulatingSupply = Num(webResp.f.v - LOCKED_SUPPLY)
       /\ webSupply = Returns(circulatingSupply)

\* The adapter calls that returned the amount n
CallsReturning(n) ==
    {k \in 1 .. Len(adapterCalls) : adapterCalls[k].result = Returns(Num(n))}

\* C11: end to end: with three eligible records A (residual), B and C whose
\* adapters return 100 and 50, and an oracle total supply of 1,000,000,000,
\* updateBalances computes circulating = 700,000,000, sets A's tokenBalance
\* to 699,999,850 without calling an adapter for A, and writes the eligible
\* records in the order [A, B, C].
C11_EndToEndScenario ==
    (/\ pc = "exited"
     /\ io.write = "ok"
     /\ Cardinality(EligibleRead) = 3
     /\ oracleResp.net /\ oracleResp.status = 200
     /\ oracleResp.k = "object" /\ oracleResp.f = Num(1000000000)
     /\ Len(adapterCalls) = 2
     /\ Cardinality(CallsReturning(100)) = 1
     /\ Cardinality(CallsReturning(50)) = 1)
    => \E a \in EligibleRead, b \in CallsReturning(100),
          c \in CallsReturning(50) :
          /\ readLinks[a].name = "Ethereum"
          /\ circulatingSupply = Num(700000000)
          /\ \A k \in 1 .. Len(adapterCalls) :
                adapterCalls[k].id # a /\ adapterCalls[k].name # "Ethereum"
          /\ Len(store) = 3
          /\ store[1].id = a
          /\ store[1].tokenBalance = Num(699999850)
          /\ store[2].id = adapterCalls[b].id
          /\ store[2].tokenBalance = Num(100)
          /\ store[3].id = adapterCalls[c].id
          /\ store[3].tokenBalance = Num(50)

C11_Witness ==
    /\ pc = "exited"
    /\ io.write = "ok"
    /\ oracleResp.f = Num(1000000000)
    /\ Cardinality(CallsReturning(100)) = 1
    /\ Cardinality(CallsReturning(50)) = 1
    /\ store[1].tokenBalance = Num(699999850)
    /\ readLinks[3].name = "Ethereum"

\* updateBalances was entered (the script got past its require lines)
Invoked ==
    \/ pc \in {"oracle", "loop", "await", "fallback"}
    \/ pc = "exited" /\ ~(exitCode = 0 /\ io.write = "none")

\* The eligible records of the list read that are not named Ethereum, and
\* those that are
OtherNetworks ==
    {i \in EligibleRead : readLinks[i].name # "Ethereum"}
ResidualNetwork ==
    {i \in EligibleRead : readLinks[i].name = "Ethereum"}

\* The adapter requests in flight
AdaptersInFlight == inflight \ {OracleRequest}

\* The residual record has its balance of this run: the subtraction when
\* the circulating supply is > 0, else the result of the fallback call.
ResidualComputed ==
    \A e \in ResidualNetwork :
       (\A i \in ResidualNetwork : e <= i) =>
          IF circulatingSupply.t = "num" /\ circulatingSupply.v > 0
          THEN links[e].tokenBalance =
                  Sub(circulatingSupply, Reduce(bridgedBalances, Num(0)))
          ELSE \E n \in 1 .. Len(adapterCalls) :
                  /\ adapterCalls[n].id = e
                  /\ links[e].tokenBalance = adapterCalls[n].result.val

\* C12: in every invocation the store is read exactly once and written at
\* most once; the write happens only after the oracle call, every adapter
\* call and the residual computation have completed; when the read or the
\* parse fails there is no write and no external call.
C12_StoreReadOnceWrittenLast ==
    /\ counts.reads <= 1
    /\ counts.writes <= 1
    /\ Invoked => counts.reads = 1
    /\ counts.writes = 1 =>
          /\ counts.oracle = 1
          /\ oracleResp # NoResponse
          /\ inflight = {}
          /\ \A i \in OtherNetworks :
                \E n \in 1 .. Len(adapterCalls) : adapterCalls[n].id = i
          /\ Len(bridgedBalances) = Cardinality(OtherNetworks)
          /\ ResidualComputed
    /\ io.read = "failed" =>
          /\ counts.writes = 0
          /\ counts.oracle = 0
          /\ adapterCalls = <<>>
          /\ inflight = {}

C12_Witness ==
    /\ counts.writes = 1
    /\ Cardinality(OtherNetworks) >= 2
    /\ ResidualNetwork # {}

\* The adapter calls settled so far that were made inside the loop (all but
\* a fallback call), as record ids in call order
LoopCallIds ==
    [n \in 1 .. Len(bridgedBalances) |-> adapterCalls[n].id]

\* C13: past the read, the oracle is called exactly once and before any
\* adapter call; the adapter is called exactly once for each eligible
\* non-residual record, in store order, and a call starts only after the
\* previous one has returned: never two requests in flight.
C13_SequentialCallsInStoreOrder ==
    /\ counts.oracle <= 1
    /\ (Invoked /\ io.read = "ok") => counts.oracle = 1
    /\ (adapterCalls # <<>> \/ AdaptersInFlight # {}) =>
          /\ counts.oracle = 1
          /\ OracleRequest \notin inflight
          /\ oracleResp # NoResponse
    /\ Cardinality(inflight) <= 1
    /\ Len(bridgedBalances) <= Len(adapterCalls)
    /\ \A n \in 1 .. Len(LoopCallIds) :
          /\ LoopCallIds[n] \in OtherNetworks
          /\ Cardinality({i \in OtherNetworks : i < LoopCallIds[n]}) = n - 1
    /\ \A r \in AdaptersInFlight :
          r.id \in OtherNetworks =>
             Cardinality({i \in OtherNetworks : i < r.id}) = Len(LoopCallIds)
    /\ (pc = "fallback" \/ (pc = "exited" /\ io.write # "none")) =>
          Len(LoopCallIds) = Cardinality(OtherNetworks)

C13_Witness ==
    /\ pc = "exited"
    /\ io.write = "ok"
    /\ Cardinality(OtherNetworks) >= 2
    /\ Len(adapterCalls) = 3

\* The adapter calls made for a record named Ethereum: settled, in flight
EthereumCalls ==
    {n \in 1 .. Len(adapterCalls) : adapterCalls[n].name = "Ethereum"}
EthereumInFlight ==
    {r \in AdaptersInFlight : r.id \in ResidualNetwork}

\* C14: when the oracle yields a circulating supply > 0, no adapter call is
\* ever made for the residual network; the adapter is called for the
\* residual network only in the fallback branch, and then exactly once.
C14_ResidualFetchedOnlyInFallback ==
    /\ (circulatingSupply.t = "num" /\ circulatingSupply.v > 0) =>
          EthereumCalls = {} /\ EthereumInFlight = {}
    /\ (EthereumCalls # {} \/ EthereumInFlight # {}) =>
          /\ pc \in {"fallback", "exited"}
          /\ oracleResp # NoResponse
          /\ Len(bridgedBalances) = Cardinality(OtherNetworks)
          /\ Cardinality(EthereumCalls) + Cardinality(EthereumInFlight) = 1
    /\ (pc = "exited" /\ io.write # "none" /\ ResidualNetwork # {}
          /\ ~(circulatingSupply.t = "num" /\ circulatingSupply.v > 0)) =>
          Cardinality(EthereumCalls) = 1

C14_Witness ==
    /\ pc = "exited"
    /\ io.write = "ok"
    /\ circulatingSupply = Num(0)
    /\ Cardinality(EthereumCalls) = 1
    /\ OtherNetworks # {}

\* Every step taken while a request is in flight settles that request: as
\* long as it has not returned nothing else happens.
NothingWhileInFlight ==
    [][inflight # {} => inflight \cap inflight' = {}]_vars

UniqueNames ==
    \A i, j \in 1 .. Len(readLinks) :
       readLinks[i].name = readLinks[j].name => i = j

\* C19: provided record names are unique, every eligible record of the
\* written list has a tokenBalance assigned in this invocation: a
\* non-residual record the result of its adapter call, which is 0 when the
\* call failed, and the residual record the subtraction or the result of
\* the fallback call.
C19_EveryBalanceAssignedThisRun ==
    (Written /\ UniqueNames) =>
       \A n \in WrittenEligible :
          LET i == store[n].id
              b == store[n].tokenBalance
          IN IF readLinks[i].name # "Ethereum"
             THEN \E k \in 1 .. Len(adapterCalls) :
                     /\ adapterCalls[k].id = i
                     /\ b = adapterCalls[k].result.val
                     /\ AdapterFailed(adapterCalls[k]) => b = Num(0)
             ELSE IF circulatingSupply.t = "num" /\ circulatingSupply.v > 0
                  THEN b = Sub(circulatingSupply,
                               Reduce(bridgedBalances, Num(0)))
                  ELSE \E k \in 1 .. Len(adapterCalls) :
                          /\ adapterCalls[k].id = i
                          /\ b = adapterCalls[k].result.val

HadFreshEntry(k) ==
    /\ gcf[k].cached # NoEntry
    /\ gcf[k].at - gcf[k].cached.timestamp < 5 * 60 * 1000

\* The call for key k returns in this step with the result of its fetch
FetchReturns(k) == gcf[k].st = "fetching" /\ gcf'[k].st = "returned"

\* C16: getCachedOrFetch(key, f) returns the stored data without calling f
\* when localStorage holds an entry for key less than 5 minutes old;
\* otherwise (no entry, or age >= 5 minutes) it calls f exactly once and,
\* f having resolved, stores {data, timestamp = now} under key, as JSON,
\* and returns the fresh data.
C16_CachedWithinFiveMinutes ==
    /\ [](\A k \in CacheKeys :
            gcf[k].st # "idle" =>
               IF HadFreshEntry(k)
               THEN /\ gcf[k].calls = 0
                    /\ gcf[k].st = "returned"
                    /\ gcf[k].ret = gcf[k].cached.data
                    /\ localStorage[k] = gcf[k].cached
               ELSE /\ gcf[k].calls = 1
                    /\ gcf[k].st = "returned" =>
                          localStorage[k].data = JsonRoundTrip(gcf[k].ret))
    /\ [][\A k \in CacheKeys :
             FetchReturns(k) =>
                /\ \E resp \in FetchResponses(k) :
                      FetchFunction(k, resp) = Returns(gcf'[k].ret)
                /\ localStorage'[k] =
                      [data |-> JsonRoundTrip(gcf'[k].ret), timestamp |-> now]
          ]_vars

C16_Witness ==
    \E a, b \in CacheKeys :
       /\ gcf[a].st = "returned"
       /\ gcf[a].calls = 0
       /\ HadFreshEntry(a)
       /\ gcf[b].st = "returned"
       /\ gcf[b].calls = 1
       /\ gcf[b].cached # NoEntry
       /\ gcf[b].at - gcf[b].cached.timestamp = 5 * 60 * 1000

\* C17: getCachedOrFetch writes a cache entry only after its fetch function
\* resolved; when the fetch fails the entry for that key is left unchanged
\* and the error propagates: fetchWOOMetrics, which runs the two fetches in
\* parallel, throws when one source fails, while the other source's fresh
\* result can still get stored.
C17_EntryWrittenOnlyAfterFetchResolved ==
    /\ [][\A k \in CacheKeys :
             /\ localStorage'[k] # localStorage[k] => FetchReturns(k)
             /\ (gcf[k].st = "fetching" /\ gcf'[k].st = "threw") =>
                   localStorage'[k] = localStorage[k]
          ]_vars
    /\ []((\E k \in CacheKeys : gcf[k].st = "threw") =>
             page.stats \in {"loading", "error"})
    /\ [](page.stats = "rendered" =>
             \A k \in CacheKeys : gcf[k].st = "returned")

C17_Witness ==
    \E a, b \in CacheKeys :
       /\ gcf[a].st = "threw"
       /\ localStorage[a] = gcf[a].cached
       /\ page.stats = "error"
       /\ gcf[b].st = "returned"
       /\ gcf[b].calls = 1
       /\ localStorage[b] # gcf[b].cached
       /\ localStorage[b].timestamp > gcf[b].at

\* C20: on page load loadLinks and loadStats run concurrently, and a failed
\* metrics load never prevents the links from being rendered: the links
\* are rendered and the filter handlers installed exactly when loadLinks
\* returned a non-empty list, but only after both loadLinks and loadStats
\* have settled.
C20_LinksRenderedWhateverTheMetrics ==
    /\ (page.links = "idle") = (page.stats = "idle")
    /\ page.filters = page.rendered
    /\ page.handler \in {"done", "threw"} =>
          page.links = "settled" /\ page.stats \in {"rendered", "error"}
    /\ page.rendered =>
          /\ page.handler = "done"
          /\ page.wooLinks.k = "list"
          /\ page.wooLinks.n > 0
    /\ page.handler = "done" =>
          (page.rendered = (page.wooLinks.k = "list" /\ page.wooLinks.n > 0))

C20_Witness ==
    /\ page.handler = "done"
    /\ page.rendered
    /\ page.filters
    /\ page.stats = "error"
    /\ \E k \in CacheKeys : gcf[k].st = "threw"

====
